---- MODULE Spec2Model ----
(***************************************************************************)
(* Emission controller of contracts/terraswap_moon/src/contract.rs:        *)
(* the persisted MoonInfoRaw record, the nine ExecuteMsg routes and the    *)
(* handlers they dispatch to.  One step of the model is one call of        *)
(* execute, processed to completion; a call that returns Err persists      *)
(* nothing.                                                                *)
(***************************************************************************)
EXTENDS Integers, Sequences, FiniteSets, TLC

VARIABLES moon_config, call, response, ledger

vars == <<moon_config, call, response, ledger>>

(***************************************************************************)
(* Bounds of the model.                                                    *)
(***************************************************************************)
\* width in bits of the schedule integers (Uint128 in the code)
Width == 7
\* month_count of the instantiations with five schedules to release
MaxMonths == 1
\* monthly_amount of the instantiations with five schedules to release
MaxAmount == 2

UintMax == 2^Width - 1

(***************************************************************************)
(* Uint128 values that do not fit a machine integer of the checker (the    *)
(* total supply, and every amount carried by a message) are kept as two    *)
(* limbs, hi * LimbBase + lo.                                              *)
(***************************************************************************)
LimbBase == 1000 * 1000

Uint128From(n) == [hi |-> n \div LimbBase, lo |-> n % LimbBase]

Uint128Ge(x, y) == \/ x.hi > y.hi
                   \/ x.hi = y.hi /\ x.lo >= y.lo

\* x / d for a divisor d below LimbBase: schoolbook long division
Uint128Div(x, d) ==
    [hi |-> x.hi \div d,
     lo |-> ((x.hi % d) * LimbBase + x.lo) \div d]

\* x * k for a small k, with the carry out of the low limb
Uint128MulSmall(x, k) ==
    [hi |-> x.hi * k + (x.lo * k) \div LimbBase,
     lo |-> (x.lo * k) % LimbBase]

\* x - y, for x >= y
Uint128Sub(x, y) ==
    IF x.lo >= y.lo
    THEN [hi |-> x.hi - y.hi, lo |-> x.lo - y.lo]
    ELSE [hi |-> x.hi - y.hi - 1, lo |-> x.lo + LimbBase - y.lo]

(***************************************************************************)
(* Addresses.  A human address is a bech32 string; its canonical form is   *)
(* the decoded byte string, modelled as a number.  CanonicalAddr's         *)
(* to_string renders the bytes as hexadecimal digits, not the bech32 form. *)
(***************************************************************************)
HumanAddrs == {"terra1clsm", "terra1minter", "terra1timer", "terra1pair",
               "terra1nft", "terra1marketing", "terra1game", "terra1team",
               "terra1moon", "terra1other"}

CanonicalBytes ==
    [h \in HumanAddrs |->
        CASE h = "terra1clsm"      -> 1
          [] h = "terra1minter"    -> 2
          [] h = "terra1timer"     -> 3
          [] h = "terra1pair"      -> 4
          [] h = "terra1nft"       -> 5
          [] h = "terra1marketing" -> 6
          [] h = "terra1game"      -> 7
          [] h = "terra1team"      -> 8
          [] h = "terra1moon"      -> 9
          [] h = "terra1other"     -> 10]

addr_canonicalize(human) == CanonicalBytes[human]

addr_humanize(canonical) ==
    CHOOSE h \in HumanAddrs : CanonicalBytes[h] = canonical

\* CanonicalAddr::to_string: two upper-case hexadecimal digits per byte
to_string(canonical) ==
    CASE canonical = 1  -> "01"
      [] canonical = 2  -> "02"
      [] canonical = 3  -> "03"
      [] canonical = 4  -> "04"
      [] canonical = 5  -> "05"
      [] canonical = 6  -> "06"
      [] canonical = 7  -> "07"
      [] canonical = 8  -> "08"
      [] canonical = 9  -> "09"
      [] canonical = 10 -> "0A"

\* env.contract.address
ContractAddress == "terra1moon"

\* the senders a call is tried with
Senders == {"terra1timer", "terra1other"}

(***************************************************************************)
(* The five schedules of MoonInfoRaw.                                      *)
(***************************************************************************)
Vests == {"pair_vest", "nft_vest", "marketing_vest", "game_vest", "team_vest"}

VestInfo(address, monthly_amount, month_count) ==
    [address |-> address, monthly_amount |-> monthly_amount,
     month_count |-> month_count]

\* InstantiateMsg with every schedule of MaxMonths months
GeneralMsgs ==
    { [clsm_addr |-> "terra1clsm", minter_addr |-> "terra1minter",
       timer_trigger |-> "terra1timer",
       pair_vest |-> VestInfo("terra1pair", a, c[1]),
       nft_vest |-> VestInfo("terra1nft", a, c[2]),
       marketing_vest |-> VestInfo("terra1marketing", a, c[3]),
       game_vest |-> VestInfo("terra1game", a, c[4]),
       team_vest |-> VestInfo("terra1team", a, c[5])] :
      a \in {MaxAmount}, c \in [1..5 -> {MaxMonths}] }

\* a pair schedule of twelve months of 100, the other schedules empty
YearMsg ==
    [clsm_addr |-> "terra1clsm", minter_addr |-> "terra1minter",
     timer_trigger |-> "terra1timer",
     pair_vest |-> VestInfo("terra1pair", 100, 12),
     nft_vest |-> VestInfo("terra1nft", 100, 0),
     marketing_vest |-> VestInfo("terra1marketing", 100, 0),
     game_vest |-> VestInfo("terra1game", 100, 0),
     team_vest |-> VestInfo("terra1team", 100, 0)]

\* a pair schedule of the largest representable month_count
WideMsg ==
    [clsm_addr |-> "terra1clsm", minter_addr |-> "terra1minter",
     timer_trigger |-> "terra1timer",
     pair_vest |-> VestInfo("terra1pair", 1, UintMax),
     nft_vest |-> VestInfo("terra1nft", 1, 0),
     marketing_vest |-> VestInfo("terra1marketing", 1, 0),
     game_vest |-> VestInfo("terra1game", 1, 0),
     team_vest |-> VestInfo("terra1team", 1, 0)]

InstantiateMsgs == GeneralMsgs \cup {YearMsg, WideMsg}

\* the answers of the token-balance query
Balances == (0 .. MaxAmount) \cup {100}

\* the amounts a caller passes to DynamicMint* and SendLUNC
Amounts == {0, MaxAmount + 1}

\* the answers of the total-supply query
Supplies ==
    { [hi |-> 0, lo |-> 0], [hi |-> 0, lo |-> 99], [hi |-> 0, lo |-> 100],
      [hi |-> 0, lo |-> 500], [hi |-> 0, lo |-> 999999],
      [hi |-> 999, lo |-> 999999], [hi |-> 1000, lo |-> 0],
      [hi |-> 1000, lo |-> 1], [hi |-> 4000, lo |-> 0],
      [hi |-> 4000, lo |-> 3] }

(***************************************************************************)
(* instantiate: every address is canonicalized, every cursor starts at 0.  *)
(***************************************************************************)
VestInfoRaw(vest) ==
    [address |-> addr_canonicalize(vest.address),
     monthly_amount |-> vest.monthly_amount,
     month_count |-> vest.month_count,
     month_index |-> 0]

instantiate(msg) ==
    [clsm_addr |-> addr_canonicalize(msg.clsm_addr),
     minter_addr |-> addr_canonicalize(msg.minter_addr),
     timer_trigger |-> addr_canonicalize(msg.timer_trigger),
     pair_vest |-> VestInfoRaw(msg.pair_vest),
     nft_vest |-> VestInfoRaw(msg.nft_vest),
     marketing_vest |-> VestInfoRaw(msg.marketing_vest),
     game_vest |-> VestInfoRaw(msg.game_vest),
     team_vest |-> VestInfoRaw(msg.team_vest)]

(***************************************************************************)
(* Outbound messages and results.                                          *)
(***************************************************************************)
Cw20(addr) == [kind |-> "Cw20", id |-> addr]

Native(denom) == [kind |-> "Native", id |-> denom]

\* util::transfer_token_message: one transfer of amount of denom to recipient
transfer_token_message(denom, amount, recipient) ==
    [kind |-> "transfer", denom |-> denom,
     amount |-> Uint128From(amount), address |-> recipient]

\* WasmMsg::Execute { contract_addr, msg: Cw20ExecuteMsg::BurnFrom { owner, amount } }
BurnFrom(contract_addr, owner, amount) ==
    [kind |-> "burn_from", denom |-> Cw20(contract_addr),
     amount |-> amount, address |-> owner]

Ok(config, messages) == [err |-> "Ok", config |-> config, messages |-> messages]

Err(config, error) == [err |-> error, config |-> config, messages |-> <<>>]

(***************************************************************************)
(* Uint128 addition panics on overflow; a panic aborts the call.           *)
(***************************************************************************)
Overflows(a, b) == a + b > UintMax

(***************************************************************************)
(* The conditions the handlers branch on.  Every handler but sendLunc      *)
(* opens with the same permission check; the five release handlers and     *)
(* dynamic_mint share the bounds test and the cursor increment.  Each is   *)
(* preceded by a fault variant of it, which the properties below are       *)
(* expected to tell apart from the code.                                   *)
(***************************************************************************)
\* fault variant: the check left out, as in sendLunc
permission_denied_never(config, sender) == FALSE

permission_denied(config, sender) ==
    addr_canonicalize(sender) # config.timer_trigger

\* fault variant: > for >=
vesting_finished_late(month_index, month_count) == month_index > month_count

vesting_finished(month_index, month_count) == month_index >= month_count

\* fault variant: <= for <
less_than_vesting_or_equal(clsm_amount, monthly_amount) ==
    clsm_amount <= monthly_amount

less_than_vesting(clsm_amount, monthly_amount) == clsm_amount < monthly_amount

\* fault variant: the cursor written back as read
next_month_index_same(month_index) == month_index

next_month_index(month_index) == month_index + 1

(***************************************************************************)
(* The release handlers.  emission2pair_contract, emission2nft_minter,     *)
(* emission2marketing, emission2minigames and emission2team are the same   *)
(* text over a different schedule of the record; emission is that text     *)
(* with the schedule as a parameter.  The result carries the configuration *)
(* the storage holds when the handler returns.                             *)
(***************************************************************************)
\* fault variant: the balance looked at before the schedule
emission_balance_first(config, vest, sender, balance) ==
    LET clsm_addr == config.clsm_addr
        address == config[vest].address
        monthly_amount == config[vest].monthly_amount
        month_count == config[vest].month_count
        month_index == config[vest].month_index
    IN  IF permission_denied(config, sender)
        THEN Err(config, "Unauthorized")
        ELSE IF less_than_vesting(balance, monthly_amount)
        THEN Err(config, "LessThanVesting")
        ELSE IF vesting_finished(month_index, month_count)
        THEN Err(config, "Unauthorized")
        ELSE IF Overflows(month_index, 1)
        THEN Err(config, "Panic")
        ELSE Ok([config EXCEPT ![vest].month_index =
                                   next_month_index(month_index)],
                << transfer_token_message(Cw20(addr_humanize(clsm_addr)),
                                          monthly_amount,
                                          addr_humanize(address)) >>)

emission(config, vest, sender, balance) ==
    LET clsm_addr == config.clsm_addr
        address == config[vest].address
        monthly_amount == config[vest].monthly_amount
        month_count == config[vest].month_count
        month_index == config[vest].month_index
    IN  \* permission check
        IF permission_denied(config, sender)
        THEN Err(config, "Unauthorized")
        ELSE IF vesting_finished(month_index, month_count)
        THEN Err(config, "Unauthorized")
        \* clsm_amount is the answer of query_token_balance
        ELSE IF less_than_vesting(balance, monthly_amount)
        THEN Err(config, "LessThanVesting")
        ELSE IF Overflows(month_index, 1)
        THEN Err(config, "Panic")
        ELSE Ok([config EXCEPT ![vest].month_index =
                                   next_month_index(month_index)],
                << transfer_token_message(Cw20(addr_humanize(clsm_addr)),
                                          monthly_amount,
                                          addr_humanize(address)) >>)

emission2pair_contract(config, sender, balance) ==
    emission(config, "pair_vest", sender, balance)

\* fault variant: the cursor saved into the schedule of the next handler
emission2nft_minter_copied(config, sender, balance) ==
    LET result == emission(config, "nft_vest", sender, balance)
    IN  IF result.err = "Ok"
        THEN [result EXCEPT !.config =
                 [config EXCEPT !.marketing_vest.month_index =
                                    config.nft_vest.month_index + 1]]
        ELSE result

emission2nft_minter(config, sender, balance) ==
    emission(config, "nft_vest", sender, balance)

emission2marketing(config, sender, balance) ==
    emission(config, "marketing_vest", sender, balance)

emission2minigames(config, sender, balance) ==
    emission(config, "game_vest", sender, balance)

\* fault variant: the cursor read from the schedule of the previous handler
emission2team_mixed(config, sender, balance) ==
    LET result == emission(config, "team_vest", sender, balance)
    IN  IF result.err = "Ok"
        THEN [result EXCEPT !.config =
                 [config EXCEPT !.team_vest.month_index =
                                    config.game_vest.month_index + 1]]
        ELSE result

emission2team(config, sender, balance) ==
    emission(config, "team_vest", sender, balance)

(***************************************************************************)
(* dynamic_mint: the pair schedule again, without the balance query, and   *)
(* without any use of amount.  balance is what the querier the handler is  *)
(* given would answer; the handler never asks.                             *)
(***************************************************************************)
\* fault variant: the caller's amount transferred
dynamic_mint_amount(config, sender, amount, balance) ==
    LET clsm_addr == config.clsm_addr
        pair_contract_address == config.pair_vest.address
        pair_contract_month_count == config.pair_vest.month_count
        pair_contract_month_index == config.pair_vest.month_index
    IN  IF permission_denied(config, sender)
        THEN Err(config, "Unauthorized")
        ELSE IF vesting_finished(pair_contract_month_index,
                                 pair_contract_month_count)
        THEN Err(config, "Unauthorized")
        ELSE IF Overflows(pair_contract_month_index, 1)
        THEN Err(config, "Panic")
        ELSE Ok([config EXCEPT !.pair_vest.month_index =
                                   next_month_index(pair_contract_month_index)],
                << transfer_token_message(Cw20(addr_humanize(clsm_addr)),
                                          amount,
                                          addr_humanize(pair_contract_address)) >>)

\* fault variant: the bounds test left out
dynamic_mint_unbounded(config, sender, amount, balance) ==
    LET clsm_addr == config.clsm_addr
        pair_contract_address == config.pair_vest.address
        pair_contract_monthly_amount == config.pair_vest.monthly_amount
        pair_contract_month_index == config.pair_vest.month_index
    IN  IF permission_denied(config, sender)
        THEN Err(config, "Unauthorized")
        ELSE IF Overflows(pair_contract_month_index, 1)
        THEN Err(config, "Panic")
        ELSE Ok([config EXCEPT !.pair_vest.month_index =
                                   next_month_index(pair_contract_month_index)],
                << transfer_token_message(Cw20(addr_humanize(clsm_addr)),
                                          pair_contract_monthly_amount,
                                          addr_humanize(pair_contract_address)) >>)

dynamic_mint(config, sender, amount, balance) ==
    LET clsm_addr == config.clsm_addr
        pair_contract_address == config.pair_vest.address
        pair_contract_monthly_amount == config.pair_vest.monthly_amount
        pair_contract_month_count == config.pair_vest.month_count
        pair_contract_month_index == config.pair_vest.month_index
    IN  \* permission check
        IF permission_denied(config, sender)
        THEN Err(config, "Unauthorized")
        ELSE IF vesting_finished(pair_contract_month_index,
                                 pair_contract_month_count)
        THEN Err(config, "Unauthorized")
        ELSE IF Overflows(pair_contract_month_index, 1)
        THEN Err(config, "Panic")
        ELSE Ok([config EXCEPT !.pair_vest.month_index =
                                   next_month_index(pair_contract_month_index)],
                << transfer_token_message(Cw20(addr_humanize(clsm_addr)),
                                          pair_contract_monthly_amount,
                                          addr_humanize(pair_contract_address)) >>)

(***************************************************************************)
(* automatic_burn: a quarter of the total supply from 1000000000 on, a     *)
(* hundredth below.  The addresses of the message are the stored canonical *)
(* addresses rendered with to_string.                                      *)
(***************************************************************************)
BurnThreshold == 1000000000

\* fault variant: > for >= at the threshold
burn_amount_above(total_supply) ==
    IF ~Uint128Ge(Uint128From(BurnThreshold), total_supply)
    THEN Uint128Div(total_supply, 4)
    ELSE Uint128Div(total_supply, 100)

burn_amount(total_supply) ==
    IF Uint128Ge(total_supply, Uint128From(BurnThreshold))
    THEN Uint128Div(total_supply, 4)
    ELSE Uint128Div(total_supply, 100)

\* fault variant: the burn written like a release, saving an advanced cursor
automatic_burn_spending(config, sender, total_supply) ==
    IF permission_denied(config, sender)
    THEN Err(config, "Unauthorized")
    ELSE LET clsm_addr == config.clsm_addr
             pair_contract_address == config.pair_vest.address
             spent == [config EXCEPT !.pair_vest.month_index =
                          IF @ < config.pair_vest.month_count THEN @ + 1 ELSE @]
         IN  Ok(spent,
                << BurnFrom(to_string(clsm_addr),
                            to_string(pair_contract_address),
                            burn_amount(total_supply)) >>)

automatic_burn(config, sender, total_supply) ==
    \* permission check
    IF permission_denied(config, sender)
    THEN Err(config, "Unauthorized")
    ELSE LET clsm_addr == config.clsm_addr
             pair_contract_address == config.pair_vest.address
         IN  Ok(config,
                << BurnFrom(to_string(clsm_addr),
                            to_string(pair_contract_address),
                            burn_amount(total_supply)) >>)

(***************************************************************************)
(* sendLunc: no configuration is loaded and no sender is looked at; one    *)
(* transfer of native uluna naming the contract's own address.             *)
(***************************************************************************)
sendLunc(config, sender, amount) ==
    Ok(config,
       << transfer_token_message(Native("uluna"), amount, ContractAddress) >>)

(***************************************************************************)
(* execute: one action per ExecuteMsg variant.  call records the message,  *)
(* its sender and the answers the queriers would give during the call;     *)
(* response the Result handed back.  ledger is the host's side of the      *)
(* outbound messages: what the returned transfers carry in total to each   *)
(* schedule's beneficiary, how many calls of the two handlers of the pair  *)
(* schedule were granted, and which of the two was granted last.           *)
(***************************************************************************)
NoSupply == [hi |-> 0, lo |-> 0]

\* the five release arms of the match in execute
execute_release(config, msg, sender, balance) ==
    CASE msg = "MintCLSMToPairContract" ->
             emission2pair_contract(config, sender, balance)
      [] msg = "MintCLSMToNFTMinters" ->
             emission2nft_minter(config, sender, balance)
      [] msg = "MintCLSMToMarketing" ->
             emission2marketing(config, sender, balance)
      [] msg = "MintCLSMToMiniGames" ->
             emission2minigames(config, sender, balance)
      [] msg = "MintCLSMToTeam" ->
             emission2team(config, sender, balance)

Call(msg, sender, amount, balance, total_supply) ==
    [msg |-> msg, sender |-> sender, amount |-> amount,
     balance |-> balance, total_supply |-> total_supply]

PairHandler ==
    [MintCLSMToPairContract |-> "emission2pair_contract",
     DynamicMintFromLunc |-> "dynamic_mint",
     DynamicMintFromUstc |-> "dynamic_mint"]

Uint128Value(x) == x.hi * LimbBase + x.lo

RECURSIVE TransferredTo(_, _)
\* the amount the cw20 transfers among messages carry to recipient
TransferredTo(messages, recipient) ==
    IF messages = << >>
    THEN 0
    ELSE LET m == Head(messages)
         IN  (IF m.kind = "transfer" /\ m.denom.kind = "Cw20"
                    /\ m.address = recipient
              THEN Uint128Value(m.amount)
              ELSE 0) + TransferredTo(Tail(messages), recipient)

Executed(c, result) ==
    LET granted == result.err = "Ok" /\ c.msg \in DOMAIN PairHandler
    IN  [sent |-> [v \in Vests |->
                     ledger.sent[v]
                     + TransferredTo(result.messages,
                                     addr_humanize(moon_config[v].address))],
         pair_grants |-> IF granted THEN ledger.pair_grants + 1
                         ELSE ledger.pair_grants,
         last_pair_grant |-> IF granted THEN PairHandler[c.msg]
                             ELSE ledger.last_pair_grant]

Return(c, result) ==
    /\ call' = c
    /\ response' = [err |-> result.err, messages |-> result.messages]
    /\ moon_config' = result.config
    /\ ledger' = Executed(c, result)

MintCLSMToPairContract ==
    \E sender \in Senders, balance \in Balances :
        Return(Call("MintCLSMToPairContract", sender, 0, balance, NoSupply),
               emission2pair_contract(moon_config, sender, balance))

MintCLSMToNFTMinters ==
    \E sender \in Senders, balance \in Balances :
        Return(Call("MintCLSMToNFTMinters", sender, 0, balance, NoSupply),
               emission2nft_minter(moon_config, sender, balance))

MintCLSMToMarketing ==
    \E sender \in Senders, balance \in Balances :
        Return(Call("MintCLSMToMarketing", sender, 0, balance, NoSupply),
               emission2marketing(moon_config, sender, balance))

MintCLSMToMiniGames ==
    \E sender \in Senders, balance \in Balances :
        Return(Call("MintCLSMToMiniGames", sender, 0, balance, NoSupply),
               emission2minigames(moon_config, sender, balance))

MintCLSMToTeam ==
    \E sender \in Senders, balance \in Balances :
        Return(Call("MintCLSMToTeam", sender, 0, balance, NoSupply),
               emission2team(moon_config, sender, balance))

DynamicMintFromLunc ==
    \E sender \in Senders, amount \in Amounts, balance \in Balances :
        Return(Call("DynamicMintFromLunc", sender, amount, balance, NoSupply),
               dynamic_mint(moon_config, sender, amount, balance))

DynamicMintFromUstc ==
    \E sender \in Senders, amount \in Amounts, balance \in Balances :
        Return(Call("DynamicMintFromUstc", sender, amount, balance, NoSupply),
               dynamic_mint(moon_config, sender, amount, balance))

AutomaticBurn ==
    \E sender \in Senders, total_supply \in Supplies :
        Return(Call("AutomaticBurn", sender, 0, 0, total_supply),
               automatic_burn(moon_config, sender, total_supply))

SendLUNC ==
    \E sender \in Senders, amount \in Amounts :
        Return(Call("SendLUNC", sender, amount, 0, NoSupply),
               sendLunc(moon_config, sender, amount))

Init ==
    /\ \E msg \in InstantiateMsgs : moon_config = instantiate(msg)
    /\ call = Call("instantiate", "terra1other", 0, 0, NoSupply)
    /\ response = [err |-> "Ok", messages |-> <<>>]
    /\ ledger = [sent |-> [v \in Vests |-> 0], pair_grants |-> 0,
                 last_pair_grant |-> "none"]

Next ==
    \/ MintCLSMToPairContract
    \/ MintCLSMToNFTMinters
    \/ MintCLSMToMarketing
    \/ MintCLSMToMiniGames
    \/ MintCLSMToTeam
    \/ DynamicMintFromLunc
    \/ DynamicMintFromUstc
    \/ AutomaticBurn
    \/ SendLUNC

Spec == Init /\ [][Next]_vars

TypeOK ==
    /\ response.err \in {"Ok", "Unauthorized", "LessThanVesting", "Panic"}
    /\ Len(response.messages) <= 1
    /\ \A v \in Vests : moon_config[v].month_index \in 0 .. UintMax

(***************************************************************************)
(* Vocabulary of the properties.                                           *)
(***************************************************************************)
\* the schedule each release route of execute works on
ReleaseVest ==
    [MintCLSMToPairContract |-> "pair_vest",
     MintCLSMToNFTMinters |-> "nft_vest",
     MintCLSMToMarketing |-> "marketing_vest",
     MintCLSMToMiniGames |-> "game_vest",
     MintCLSMToTeam |-> "team_vest"]

Releases == DOMAIN ReleaseVest

\* the addresses every instantiation of the model is made with
TriggerAddress == "terra1timer"

TokenAddress == "terra1clsm"

Beneficiary ==
    [pair_vest |-> "terra1pair", nft_vest |-> "terra1nft",
     marketing_vest |-> "terra1marketing", game_vest |-> "terra1game",
     team_vest |-> "terra1team"]

\* the one transfer a release of schedule v returns
ReleaseTransfer(v) ==
    [kind |-> "transfer",
     denom |-> [kind |-> "Cw20", id |-> TokenAddress],
     amount |-> [hi |-> 0, lo |-> moon_config[v].monthly_amount],
     address |-> Beneficiary[v]]

\* the step is a release call; v is its schedule
ReleaseStep(v) == call'.msg \in Releases /\ ReleaseVest[call'.msg] = v

\* x = d * q + r with 0 <= r < d, in limbs
IsQuotient(q, x, d) ==
    LET dq == Uint128MulSmall(q, d)
    IN  /\ Uint128Ge(x, dq)
        /\ Uint128Sub(x, dq).hi = 0
        /\ Uint128Sub(x, dq).lo < d

(***************************************************************************)
(* C1: in every reachable state each of the five schedules has             *)
(* month_index <= month_count.                                             *)
(***************************************************************************)
C1_IndexWithinCount ==
    \A v \in Vests : moon_config[v].month_index <= moon_config[v].month_count

\* the pair and the team schedule both released to their last month
C1_Witness ==
    /\ response.err = "Ok"
    /\ call.msg = "DynamicMintFromUstc"
    /\ moon_config.pair_vest.month_count > 0
    /\ moon_config.pair_vest.month_index = moon_config.pair_vest.month_count
    /\ moon_config.team_vest.month_index = moon_config.team_vest.month_count
    /\ moon_config.team_vest.month_count > 0

(***************************************************************************)
(* C2: a release call either succeeds with exactly one transfer of         *)
(* monthly_amount of the token to the schedule's beneficiary and the       *)
(* schedule's month_index one higher, or fails with no message and the     *)
(* stored configuration as it was.                                         *)
(***************************************************************************)
C2_ReleaseAllOrNothing ==
    [][\A v \in Vests : ReleaseStep(v) =>
          \/ /\ response'.err = "Ok"
             /\ response'.messages = << ReleaseTransfer(v) >>
             /\ moon_config'[v].month_index = moon_config[v].month_index + 1
          \/ /\ response'.err # "Ok"
             /\ response'.messages = << >>
             /\ moon_config' = moon_config]_vars

\* a successful release of the marketing schedule
C2_Witness ==
    /\ call.msg = "MintCLSMToMarketing"
    /\ response.err = "Ok"
    /\ Len(response.messages) = 1
    /\ moon_config.marketing_vest.month_index = 1

(***************************************************************************)
(* C3: a release call of a sender other than the trigger address fails     *)
(* with Unauthorized and leaves every month_index as it was, whether the   *)
(* schedule is exhausted or not and whatever the balance is.               *)
(***************************************************************************)
C3_ReleaseNeedsTrigger ==
    [][\A v \in Vests :
          ReleaseStep(v) /\ call'.sender # TriggerAddress =>
              /\ response'.err = "Unauthorized"
              /\ \A w \in Vests :
                    moon_config'[w].month_index = moon_config[w].month_index]_vars

\* refused although the schedule has months left and the balance covers one
C3_Witness ==
    /\ call.msg = "MintCLSMToNFTMinters"
    /\ call.sender # TriggerAddress
    /\ response.err = "Unauthorized"
    /\ moon_config.nft_vest.month_index < moon_config.nft_vest.month_count
    /\ call.balance >= moon_config.nft_vest.monthly_amount

(***************************************************************************)
(* C4: a release call of the trigger address on a schedule whose           *)
(* month_index equals month_count fails with ScheduleExhausted, an error   *)
(* other than the Unauthorized of a foreign sender, and changes nothing.   *)
(***************************************************************************)
C4_ExhaustedIsItsOwnError ==
    [][\A v \in Vests :
          /\ ReleaseStep(v)
          /\ call'.sender = TriggerAddress
          /\ moon_config[v].month_index = moon_config[v].month_count
          => /\ response'.err = "ScheduleExhausted"
             /\ response'.err # "Unauthorized"
             /\ moon_config' = moon_config]_vars

(***************************************************************************)
(* C5: a release call of the trigger address on a schedule with months     *)
(* left fails with LessThanVesting (the code's name of the insufficient    *)
(* treasury balance error), with no message and month_index as it was,     *)
(* when the balance is below monthly_amount; from monthly_amount on it is  *)
(* not refused for the balance.                                            *)
(***************************************************************************)
C5_BalanceBelowAmount ==
    [][\A v \in Vests :
          /\ ReleaseStep(v)
          /\ call'.sender = TriggerAddress
          /\ moon_config[v].month_index < moon_config[v].month_count
          => IF call'.balance < moon_config[v].monthly_amount
             THEN /\ response'.err = "LessThanVesting"
                  /\ response'.messages = << >>
                  /\ moon_config'[v].month_index = moon_config[v].month_index
             ELSE response'.err # "LessThanVesting"]_vars

\* refused with a balance one short of monthly_amount
C5_Witness ==
    /\ call.msg = "MintCLSMToMiniGames"
    /\ response.err = "LessThanVesting"
    /\ call.balance + 1 = moon_config.game_vest.monthly_amount
    /\ moon_config.game_vest.month_index < moon_config.game_vest.month_count

(***************************************************************************)
(* C6: automatic_burn of the trigger address burns floor(total_supply / 4) *)
(* when total_supply >= 1000000000 and floor(total_supply / 100) below;    *)
(* 4000000000 gives 1000000000, 500 gives 5, and 1000000000 itself is      *)
(* divided by 4.                                                           *)
(***************************************************************************)
C6_BurnTiers ==
    call.msg = "AutomaticBurn" /\ call.sender = TriggerAddress =>
        /\ Len(response.messages) = 1
        /\ LET supply == call.total_supply
               burnt == response.messages[1].amount
           IN  /\ supply.hi >= 1000 => IsQuotient(burnt, supply, 4)
               /\ supply.hi < 1000 => IsQuotient(burnt, supply, 100)
               /\ supply = [hi |-> 4000, lo |-> 0] =>
                      burnt = [hi |-> 1000, lo |-> 0]
               /\ supply = [hi |-> 0, lo |-> 500] => burnt = [hi |-> 0, lo |-> 5]
               /\ supply = [hi |-> 1000, lo |-> 0] =>
                      burnt = [hi |-> 250, lo |-> 0]
               /\ supply = [hi |-> 999, lo |-> 999999] =>
                      burnt = [hi |-> 9, lo |-> 999999]

\* the burn of a supply of exactly the threshold
C6_Witness ==
    /\ call.msg = "AutomaticBurn"
    /\ call.sender = TriggerAddress
    /\ call.total_supply = [hi |-> 1000, lo |-> 0]
    /\ response.err = "Ok"
    /\ response.messages[1].amount = [hi |-> 250, lo |-> 0]

(***************************************************************************)
(* C7: automatic_burn, granted or refused, leaves the whole stored         *)
(* configuration as it was.                                                *)
(***************************************************************************)
C7_BurnKeepsConfig ==
    [][call'.msg = "AutomaticBurn" => moon_config' = moon_config]_vars

\* a granted burn while the pair schedule is partly released
C7_Witness ==
    /\ call.msg = "AutomaticBurn"
    /\ response.err = "Ok"
    /\ moon_config.pair_vest.month_index > 0
    /\ moon_config.pair_vest.month_index < moon_config.pair_vest.month_count

(***************************************************************************)
(* C8: with a balance that covers it, each release call of the trigger     *)
(* address on a schedule at index k - 1 < month_count succeeds, moves the  *)
(* index to k and returns one transfer of monthly_amount; the call made at *)
(* index month_count fails with ScheduleExhausted.                         *)
(***************************************************************************)
C8_ReleaseRun ==
    [][\A v \in Vests :
          /\ ReleaseStep(v)
          /\ call'.sender = TriggerAddress
          /\ call'.balance >= moon_config[v].monthly_amount
          => IF moon_config[v].month_index < moon_config[v].month_count
             THEN /\ response'.err = "Ok"
                  /\ response'.messages = << ReleaseTransfer(v) >>
                  /\ moon_config'[v].month_index = moon_config[v].month_index + 1
             ELSE response'.err = "ScheduleExhausted"]_vars

(***************************************************************************)
(* C9: dynamic_mint and automatic_burn of a sender other than the trigger  *)
(* address fail with Unauthorized, return no message and store nothing,    *)
(* whatever the pair schedule's state and whatever the supply.             *)
(***************************************************************************)
C9_MintAndBurnNeedTrigger ==
    [][/\ call'.msg \in {"DynamicMintFromLunc", "DynamicMintFromUstc",
                         "AutomaticBurn"}
       /\ call'.sender # TriggerAddress
       => /\ response'.err = "Unauthorized"
          /\ response'.messages = << >>
          /\ moon_config' = moon_config]_vars

\* a refused dynamic mint on a pair schedule with months left
C9_Witness ==
    /\ call.msg = "DynamicMintFromLunc"
    /\ call.sender # TriggerAddress
    /\ response.err = "Unauthorized"
    /\ moon_config.pair_vest.month_index < moon_config.pair_vest.month_count

(***************************************************************************)
(* C10: SendLUNC of a sender other than the trigger address fails with     *)
(* Unauthorized and returns no message.                                    *)
(***************************************************************************)
C10_SendNeedsTrigger ==
    call.msg = "SendLUNC" /\ call.sender # TriggerAddress =>
        /\ response.err = "Unauthorized"
        /\ response.messages = << >>

(***************************************************************************)
(* Further vocabulary.                                                     *)
(***************************************************************************)
DynamicMints == {"DynamicMintFromLunc", "DynamicMintFromUstc"}

\* the error the bounds test of a release returns
ExhaustedError == "Unauthorized"

\* the configurations instantiate can store
InstantiatedConfigs == { instantiate(msg) : msg \in InstantiateMsgs }

\* config with every cursor back at 0: what instantiate stored
Instantiated(config) ==
    [config EXCEPT !.pair_vest.month_index = 0,
                   !.nft_vest.month_index = 0,
                   !.marketing_vest.month_index = 0,
                   !.game_vest.month_index = 0,
                   !.team_vest.month_index = 0]

(***************************************************************************)
(* C11: a dynamic mint of the trigger address on a pair schedule with      *)
(* months left succeeds with the one transfer of the pair schedule's       *)
(* monthly_amount to the pair beneficiary and the pair month_index one     *)
(* higher, whatever amount the caller passes and whatever the treasury     *)
(* balance is, also below monthly_amount.                                  *)
(***************************************************************************)
C11_MintIgnoresAmountAndBalance ==
    [][/\ call'.msg \in DynamicMints
       /\ call'.sender = TriggerAddress
       /\ moon_config.pair_vest.month_index < moon_config.pair_vest.month_count
       => /\ response'.err = "Ok"
          /\ response'.messages = << ReleaseTransfer("pair_vest") >>
          /\ moon_config'.pair_vest.month_index =
                 moon_config.pair_vest.month_index + 1]_vars

\* granted with an empty treasury and an amount other than monthly_amount
C11_Witness ==
    /\ call.msg \in DynamicMints
    /\ response.err = "Ok"
    /\ call.balance < moon_config.pair_vest.monthly_amount
    /\ call.amount # moon_config.pair_vest.monthly_amount
    /\ response.messages[1].amount.lo = moon_config.pair_vest.monthly_amount

(***************************************************************************)
(* C12: MintCLSMToPairContract and the dynamic mints advance one cursor:   *)
(* every granted call of either moves the pair month_index up by 1, so the *)
(* granted calls of both together never outnumber the pair month_count.    *)
(***************************************************************************)
C12_PairCursorShared ==
    [][/\ call'.msg \in DOMAIN PairHandler /\ response'.err = "Ok" =>
              moon_config'.pair_vest.month_index =
                  moon_config.pair_vest.month_index + 1
       /\ ledger'.pair_grants <= moon_config'.pair_vest.month_count]_vars

\* the last month went to a dynamic mint, and a covered release is refused
C12_Witness ==
    /\ call.msg = "MintCLSMToPairContract"
    /\ call.sender = TriggerAddress
    /\ call.balance >= moon_config.pair_vest.monthly_amount
    /\ response.err # "Ok"
    /\ ledger.last_pair_grant = "dynamic_mint"
    /\ ledger.pair_grants = moon_config.pair_vest.month_count

(***************************************************************************)
(* C13: a granted release changes the month_index of its own schedule and  *)
(* nothing else of the configuration; beneficiaries, amounts, counts and   *)
(* the token, minter and trigger addresses are in every state what         *)
(* instantiate stored.                                                     *)
(***************************************************************************)
C13_ReleaseFrame ==
    [][/\ \A v \in Vests :
             ReleaseStep(v) /\ response'.err = "Ok" =>
                 moon_config' = [moon_config EXCEPT ![v].month_index = @ + 1]
       /\ Instantiated(moon_config') = Instantiated(moon_config)
       /\ Instantiated(moon_config') \in InstantiatedConfigs]_vars

\* the team schedule released, the nft schedule still at its start
C13_Witness ==
    /\ call.msg = "MintCLSMToTeam"
    /\ response.err = "Ok"
    /\ moon_config.team_vest.month_index = 1
    /\ moon_config.nft_vest.month_index = 0
    /\ moon_config.nft_vest.month_count > 0

C15_MonotoneAndFinal ==
    [][\A v \in Vests :
          /\ moon_config'[v].month_index >= moon_config[v].month_index
          /\ moon_config[v].month_index = moon_config[v].month_count =>
                /\ moon_config'[v].month_index = moon_config'[v].month_count
                /\ ReleaseStep(v) => response'.err # "Ok"
                /\ v = "pair_vest" /\ call'.msg \in DynamicMints =>
                       response'.err # "Ok"]_vars

\* a dynamic mint of the trigger address refused on the finished pair schedule
C15_Witness ==
    /\ call.msg \in DynamicMints
    /\ call.sender = TriggerAddress
    /\ response.err # "Ok"
    /\ moon_config.pair_vest.month_count > 0
    /\ moon_config.pair_vest.month_index = moon_config.pair_vest.month_count

(***************************************************************************)
(* C16: automatic_burn of the trigger address always succeeds with exactly *)
(* one burn-from message, sent to the emission token and naming the pair   *)
(* beneficiary as the owner burned from, whatever the schedules' state and *)
(* also when the amount burned is 0.                                       *)
(***************************************************************************)
C16_BurnMessage ==
    call.msg = "AutomaticBurn" /\ call.sender = TriggerAddress =>
        /\ response.err = "Ok"
        /\ Len(response.messages) = 1
        /\ response.messages[1].kind = "burn_from"
        /\ response.messages[1].denom = [kind |-> "Cw20", id |-> TokenAddress]
        /\ response.messages[1].address = Beneficiary.pair_vest

(***************************************************************************)
(* C17: every address in a returned message (token contract, recipient,    *)
(* owner burned from) is a human-readable address, never the stored        *)
(* canonical form without addr_humanize.                                   *)
(***************************************************************************)
C17_AddressesHumanized ==
    \A i \in 1 .. Len(response.messages) :
        /\ response.messages[i].address \in HumanAddrs
        /\ response.messages[i].denom.kind = "Cw20" =>
               response.messages[i].denom.id \in HumanAddrs

(***************************************************************************)
(* C18: in every state the transfers returned so far to a schedule's       *)
(* beneficiary carry monthly_amount * month_index in total (for the pair   *)
(* schedule those of the release and of the dynamic mints together), hence *)
(* at most monthly_amount * month_count.                                   *)
(***************************************************************************)
C18_SentMatchesCursor ==
    \A v \in Vests :
        /\ ledger.sent[v]
               = moon_config[v].monthly_amount * moon_config[v].month_index
        /\ ledger.sent[v]
               <= moon_config[v].monthly_amount * moon_config[v].month_count

\* twelve months of 100 paid out, the last of them by a release
C18_Witness ==
    /\ moon_config.pair_vest.monthly_amount = 100
    /\ moon_config.pair_vest.month_index = 12
    /\ ledger.sent.pair_vest = 1200
    /\ ledger.pair_grants = 12
    /\ ledger.last_pair_grant = "emission2pair_contract"
    /\ call.msg = "MintCLSMToPairContract"
    /\ response.err = "Ok"

(***************************************************************************)
(* C19: the increment month_index + 1 never overflows the width of the     *)
(* integer, also with month_count at the largest value: no call panics,    *)
(* because a cursor only moves from a month_index below month_count.       *)
(***************************************************************************)
C19_IncrementInRange ==
    [][/\ response'.err # "Panic"
       /\ \A v \in Vests :
             moon_config'[v].month_index # moon_config[v].month_index =>
                 /\ moon_config[v].month_index < moon_config[v].month_count
                 /\ ~Overflows(moon_config[v].month_index, 1)
                 /\ moon_config'[v].month_index <= UintMax]_vars

\* the increment to the largest value, granted
C19_Witness ==
    /\ moon_config.pair_vest.month_count = UintMax
    /\ moon_config.pair_vest.month_index = UintMax
    /\ call.msg \in DOMAIN PairHandler
    /\ response.err = "Ok"

(***************************************************************************)
(* C20: in every state where two different schedules both have months left *)
(* the releases of the two by the trigger address, each with a balance     *)
(* that covers it, succeed in either order and end in the same             *)
(* configuration with the same set of transfers.                           *)
(***************************************************************************)
C20_ReleasesCommute ==
    \A a \in Releases : \A b \in Releases \ {a} :
        LET va == ReleaseVest[a]
            vb == ReleaseVest[b]
        IN  /\ moon_config[va].month_index < moon_config[va].month_count
            /\ moon_config[vb].month_index < moon_config[vb].month_count
            => \A ba \in Balances, bb \in Balances :
                  /\ ba >= moon_config[va].monthly_amount
                  /\ bb >= moon_config[vb].monthly_amount
                  => LET ra == execute_release(moon_config, a,
                                               TriggerAddress, ba)
                         rab == execute_release(ra.config, b,
                                                TriggerAddress, bb)
                         rb == execute_release(moon_config, b,
                                               TriggerAddress, bb)
                         rba == execute_release(rb.config, a,
                                                TriggerAddress, ba)
                     IN  /\ ra.err = "Ok" /\ rab.err = "Ok"
                         /\ rb.err = "Ok" /\ rba.err = "Ok"
                         /\ rab.config = rba.config
                         /\ {ra.messages[1], rab.messages[1]}
                                = {rb.messages[1], rba.messages[1]}

\* the game and the team schedule released one after the other
C20_Witness ==
    /\ call.msg = "MintCLSMToTeam"
    /\ response.err = "Ok"
    /\ moon_config.team_vest.month_index = 1
    /\ moon_config.game_vest.month_index = 1
    /\ ledger.sent.game_vest = moon_config.game_vest.monthly_amount
    /\ ledger.sent.team_vest = moon_config.team_vest.monthly_amount

====
